---- MODULE Spec2Model ----
(***************************************************************************)
(* Model of the MCP tool server of solutions/aisearch-mcp4aoai: the two    *)
(* registered tools add and ai_search (server.py, server_sse.py).          *)
(*                                                                         *)
(* An invocation of ai_search is one call frame: it reads its query,       *)
(* calls the embedding client, takes the first embedding, calls the        *)
(* search client, iterates the (lazily paged) results building            *)
(* final_output, and returns it.  The two collaborators are outside the    *)
(* repository; their responses are inputs of the model.                    *)
(*                                                                         *)
(* Python values are tagged with their type, floats are kept in tenths     *)
(* (1.5 is 15 tenths), and strings are TLA+ strings, so that the f-string  *)
(* of the code is modelled by concatenation.                               *)
(***************************************************************************)
EXTENDS Integers, Sequences, FiniteSets, TLC

\* ------------------------------------------------------------------ bounds
NumInvocations == 2      \* call frames that may be alive at the same time
MaxResults == 4          \* longest search response of the single-frame runs
MaxConcResults == 2      \* longest search response of the multi-frame runs
MaxEmbeddings == 1       \* longest embedding list of a response
MaxInt == 5              \* add is called with arguments in -MaxInt..MaxInt
MaxToolCalls == 3        \* most tool calls listed by one model response

Procs == 1..NumInvocations

\* ---------------------------------------------------------- Python values
PyStr(s) == [type |-> "str", s |-> s]
PyFloat(t) == [type |-> "float", tenths |-> t]
PyInt(n) == [type |-> "int", n |-> n]
PyNone == [type |-> "NoneType"]
Unset == [type |-> "unset"]

\* repr of a non-negative float with one decimal digit, as str() prints it
FloatRepr(t) == ToString(t \div 10) \o "." \o ToString(t % 10)

\* str(v), the conversion an f-string applies to a replacement field
Format(v) ==
    CASE v.type = "str" -> v.s
      [] v.type = "float" -> FloatRepr(v.tenths)
      [] v.type = "int" -> ToString(v.n)
      [] v.type = "NoneType" -> "None"

\* the value of a number in tenths, for comparisons between int and float
Tenths(v) == IF v.type = "float" THEN v.tenths ELSE v.n * 10

\* dict.get(key, default)
Get(d, key, default) == IF key \in DOMAIN d THEN d[key] ELSE default

\* --------------------------------------------------------- program constants
Threshold == 15          \* 1.5, in tenths
SeparatorWidth == 50
TopK == 5
RerankerKey == "@search.reranker_score"
ScoreKey == "@search.score"
SemanticConfiguration == "itsupportindex-semantic-configuration"

\* the environment of the process (os.getenv): fixed for its lifetime
search_content_field_name == "content"
search_vector_field_name == "contentVector"
azure_ada_deployment == "text-embedding-ada-002"

RECURSIVE Repeat(_, _)
Repeat(s, n) == IF n = 0 THEN "" ELSE s \o Repeat(s, n - 1)


\* ----------------------------------------------------------------- inputs
Queries == {"q1", "q2"}
Vectors == {"v1", "v2"}
NoError == "NoError"
EmbeddingFailures == {"embedding:auth", "embedding:network"}
SearchFailures == {"search:network", "search:bad_index"}

SeqsUpTo(S, n) == UNION {[1..k -> S] : k \in 0..n}

\* search results are dicts; a field the service left out is not a key
RFull == (RerankerKey :> PyFloat(20)) @@ (ScoreKey :> PyFloat(8))
             @@ (search_content_field_name :> PyStr("A"))
RBoundary == (RerankerKey :> PyFloat(15))
             @@ (search_content_field_name :> PyStr("B"))
RBelow == (RerankerKey :> PyFloat(14)) @@ (ScoreKey :> PyFloat(7))
             @@ (search_content_field_name :> PyStr("C"))
RZero == (RerankerKey :> PyFloat(0)) @@ (ScoreKey :> PyFloat(3))
             @@ (search_content_field_name :> PyStr("D"))
RNoReranker == (ScoreKey :> PyFloat(9))
             @@ (search_content_field_name :> PyStr("E"))
RNoContent == (RerankerKey :> PyFloat(31)) @@ (ScoreKey :> PyFloat(6))

ResultPool == {RFull, RBoundary, RBelow, RZero, RNoReranker, RNoContent}

\* what client.embeddings.create can do: raise, or return a list of embeddings
EmbeddingResponses ==
    {[kind |-> "raise", err |-> e] : e \in EmbeddingFailures}
    \cup {[kind |-> "ok", data |-> d] : d \in SeqsUpTo(Vectors, MaxEmbeddings)}

NoResponse == [kind |-> "none"]

\* search_client.search returns a paged iterator: the results arrive while
\* the loop runs.  items are the results yielded so far; fail is the error
\* the iterator raised, if it did
Paged(items, fail) == [kind |-> "ok", items |-> items, fail |-> fail]

\* the inputs of the runs with several frames: one query, one failure of each
\* collaborator, the small pool
SmallPool == {RFull, RNoReranker}
ConcQueries == {"q1"}
ConcEmbeddingResponses ==
    {[kind |-> "raise", err |-> "embedding:auth"],
     [kind |-> "ok", data |-> <<>>], [kind |-> "ok", data |-> <<"v1">>]}
ConcSearchFailures == {"search:network"}

\* ------------------------------------------------------------------- state
VARIABLES
    pc,                  \* where each invocation is
    query,               \* its argument
    calls,               \* the outbound requests it has made, in order
    embedding_response,  \* what the embedding call did
    query_vector,
    results,             \* what the search call did and has yielded
    i,                   \* frame-local sequence counter
    final_output,        \* frame-local output buffer
    ret,                 \* the value returned to the transport
    error,               \* the exception propagated to the transport
    add_result           \* the last call of add: arguments and return value

\* the client driver run_completion_with_tools of test_mcp_server/openai_sdk.py
VARIABLES
    d_pc,                \* where the driver is
    messages,            \* the conversation sent to the model
    tool_calls,          \* response_message.tool_calls of the first response
    tc_idx,              \* tool calls the for loop has finished
    completions,         \* the completion requests made, in order
    mcp_calls,           \* the tool invocations made on the MCP session
    d_error              \* the exception caught by the outer except

aiVars == <<pc, query, calls, embedding_response, query_vector, results,
            i, final_output, ret, error>>
drvVars == <<d_pc, messages, tool_calls, tc_idx, completions, mcp_calls,
             d_error>>
vars == <<pc, query, calls, embedding_response, query_vector, results,
          i, final_output, ret, error, add_result, d_pc, messages,
          tool_calls, tc_idx, completions, mcp_calls, d_error>>

\* ----------------------------------------------------------------- add
addMinus(a, b) == a - b

add(a, b) == a + b

\* ----------------------------------------------------------- ai_search
FrameShared(p) == 1

\* the locals of an invocation live in its own call frame
Frame(p) == p

InitCounterStale(p) == i[p]

\* i = 0
InitCounter(p) == 0

RerankerOfDefaultKept(result) == Get(result, RerankerKey, PyFloat(Threshold))

\* reranker_score = result.get('@search.reranker_score', 0)
RerankerOf(result) == Get(result, RerankerKey, PyInt(0))

KeptStrict(reranker_score) == Tenths(reranker_score) > Threshold

\* if reranker_score >= 1.5
Kept(reranker_score) == Tenths(reranker_score) >= Threshold

ContentOfNone(result) == Get(result, search_content_field_name, PyNone)

\* content = result.get(search_content_field_name, '')
ContentOf(result) == Get(result, search_content_field_name, PyStr(""))

ScoreOfEmpty(result) == Get(result, ScoreKey, PyStr(""))

\* score = result.get('@search.score', 'N/A')
ScoreOf(result) == Get(result, ScoreKey, PyStr("N/A"))

\* the f-string appended for a kept result
Block(n, content, score, reranker_score) ==
    "Source " \o ToString(n) \o "\n"
    \o "Content: " \o Format(content) \o "\n"
    \o "@search.score: " \o Format(score) \o "\n"
    \o "@search.reranker_score: " \o Format(reranker_score) \o "\n"
    \o Repeat("-", SeparatorWidth) \o "\n\n"

ReturnValueNoneIfEmpty(out) == IF out = "" THEN PyNone ELSE PyStr(out)

\* return final_output
ReturnValue(out) == PyStr(out)

EmbeddingRequest(q) ==
    [api |-> "embeddings.create", input |-> q, model |-> azure_ada_deployment]

SearchRequest(q, v) ==
    [api |-> "search", search_text |-> PyNone, vector |-> v,
     k_nearest_neighbors |-> TopK, fields |-> search_vector_field_name,
     exhaustive |-> TRUE, top |-> TopK, select |-> "*", semantic_query |-> q,
     query_type |-> "semantic",
     semantic_configuration_name |-> SemanticConfiguration,
     query_answer |-> "extractive|count-5",
     query_caption |-> "extractive|highlight-false"]

\* the for loop over items[k..], run to its end: the value of final_output
RECURSIVE ForLoop(_, _, _, _)
ForLoop(items, k, n, out) ==
    IF k > Len(items) THEN out
    ELSE LET result == items[k]
             reranker_score == RerankerOf(result)
         IN  IF Kept(reranker_score)
               THEN ForLoop(items, k + 1, n + 1,
                            out \o Block(n + 1, ContentOf(result),
                                         ScoreOf(result), reranker_score))
               ELSE ForLoop(items, k + 1, n, out)

\* ai_search run from its first line to its last with nothing else running:
\* what it returns or raises and the requests it makes, given what the two
\* collaborators answer
ai_search(q, embedding, search) ==
    IF embedding.kind = "raise"
      THEN [ret |-> Unset, error |-> embedding.err,
            calls |-> <<EmbeddingRequest(q)>>]
    ELSE IF Len(embedding.data) = 0
      THEN [ret |-> Unset, error |-> "IndexError",
            calls |-> <<EmbeddingRequest(q)>>]
    ELSE LET both == <<EmbeddingRequest(q),
                       SearchRequest(q, embedding.data[1])>>
         IN  IF search.kind = "raise"
               THEN [ret |-> Unset, error |-> search.err, calls |-> both]
             ELSE IF search.fail # NoError
               THEN [ret |-> Unset, error |-> search.fail, calls |-> both]
             ELSE [ret |-> ReturnValue(ForLoop(search.items, 1, 0, "")),
                   error |-> NoError, calls |-> both]

\* ------------------------------------------- ai_search of server_sse.py
\* the same tool as registered by the SSE server, translated from its own
\* source; the environment it reads is the one of the process
ThresholdSse == 15       \* 1.5, in tenths
SeparatorWidthSse == 50
TopKSse == 5

EmbeddingRequestSse(q) ==
    [api |-> "embeddings.create", input |-> q, model |-> azure_ada_deployment]

SearchRequestSse(q, v) ==
    [api |-> "search", search_text |-> PyNone, vector |-> v,
     k_nearest_neighbors |-> TopKSse, fields |-> search_vector_field_name,
     exhaustive |-> TRUE, top |-> TopKSse, select |-> "*",
     semantic_query |-> q, query_type |-> "semantic",
     semantic_configuration_name |-> "itsupportindex-semantic-configuration",
     query_answer |-> "extractive|count-5",
     query_caption |-> "extractive|highlight-false"]

\* the f-string of Step 7
BlockSse(n, content, score, reranker_score) ==
    "Source " \o ToString(n) \o "\n"
    \o "Content: " \o Format(content) \o "\n"
    \o "@search.score: " \o Format(score) \o "\n"
    \o "@search.reranker_score: " \o Format(reranker_score) \o "\n"
    \o Repeat("-", SeparatorWidthSse) \o "\n\n"

\* Step 7, the loop run to its end
RECURSIVE ForLoopSse(_, _, _, _)
ForLoopSse(items, k, n, out) ==
    IF k > Len(items) THEN out
    ELSE LET result == items[k]
             reranker_score == Get(result, "@search.reranker_score", PyInt(0))
         IN  IF Tenths(reranker_score) >= ThresholdSse
               THEN LET content ==
                          Get(result, search_content_field_name, PyStr(""))
                        score == Get(result, "@search.score", PyStr("N/A"))
                    IN  ForLoopSse(items, k + 1, n + 1,
                                   out \o BlockSse(n + 1, content, score,
                                                   reranker_score))
               ELSE ForLoopSse(items, k + 1, n, out)

\* Steps 1 to 7: what the call returns or raises and the requests it makes
ai_search_sse(q, embedding, search) ==
    IF embedding.kind = "raise"
      THEN [ret |-> Unset, error |-> embedding.err,
            calls |-> <<EmbeddingRequestSse(q)>>]
    ELSE IF Len(embedding.data) = 0
      THEN [ret |-> Unset, error |-> "IndexError",
            calls |-> <<EmbeddingRequestSse(q)>>]
    ELSE LET both == <<EmbeddingRequestSse(q),
                       SearchRequestSse(q, embedding.data[1])>>
         IN  IF search.kind = "raise"
               THEN [ret |-> Unset, error |-> search.err, calls |-> both]
             ELSE IF search.fail # NoError
               THEN [ret |-> Unset, error |-> search.fail, calls |-> both]
             ELSE [ret |-> PyStr(ForLoopSse(search.items, 1, 0, "")),
                   error |-> NoError, calls |-> both]

\* raising: the exception leaves ai_search, nothing in it catches
Raise(p, e) ==
    /\ pc' = [pc EXCEPT ![p] = "failed"]
    /\ error' = [error EXCEPT ![p] = e]

Running(p) == pc[p] \in {"embed", "search", "loop"}
Finished(p) == pc[p] \in {"returned", "failed"}

Init ==
    /\ pc = [p \in Procs |-> "idle"]
    /\ query = [p \in Procs |-> ""]
    /\ calls = [p \in Procs |-> <<>>]
    /\ embedding_response = [p \in Procs |-> NoResponse]
    /\ query_vector = [p \in Procs |-> "unset"]
    /\ results = [p \in Procs |-> NoResponse]
    /\ i = [p \in Procs |-> 0]
    /\ final_output = [p \in Procs |-> ""]
    /\ ret = [p \in Procs |-> Unset]
    /\ error = [p \in Procs |-> NoError]
    /\ add_result = Unset
    /\ d_pc = "connect"
    /\ messages = <<>>
    /\ tool_calls = Unset
    /\ tc_idx = 0
    /\ completions = <<>>
    /\ mcp_calls = <<>>
    /\ d_error = NoError

\* the transport calls ai_search(query): a new frame, the configuration is
\* read and the embedding client built; i and final_output are not bound
\* until Search binds them
Invoke(p, q) ==
    /\ ~Running(p)
    /\ pc' = [pc EXCEPT ![p] = "embed"]
    /\ query' = [query EXCEPT ![p] = q]
    /\ calls' = [calls EXCEPT ![p] = <<>>]
    /\ embedding_response' = [embedding_response EXCEPT ![p] = NoResponse]
    /\ query_vector' = [query_vector EXCEPT ![p] = "unset"]
    /\ results' = [results EXCEPT ![p] = NoResponse]
    /\ ret' = [ret EXCEPT ![p] = Unset]
    /\ error' = [error EXCEPT ![p] = NoError]
    /\ UNCHANGED <<i, final_output, add_result>>
    /\ UNCHANGED drvVars

\* Embed with the error of the embedding call caught and ignored
EmbedSwallow(p, resp) ==
    /\ pc[p] = "embed"
    /\ calls' = [calls EXCEPT ![p] = Append(@, EmbeddingRequest(query[p]))]
    /\ embedding_response' = [embedding_response EXCEPT ![p] = resp]
    /\ IF resp.kind = "ok" /\ Len(resp.data) = 0
         THEN Raise(p, "IndexError") /\ UNCHANGED query_vector
       ELSE /\ query_vector' =
                 [query_vector EXCEPT
                    ![p] = IF resp.kind = "ok" THEN resp.data[1] ELSE "unset"]
            /\ pc' = [pc EXCEPT ![p] = "search"]
            /\ UNCHANGED error
    /\ UNCHANGED <<query, results, i, final_output, ret, add_result>>
    /\ UNCHANGED drvVars

\* embedding_response = client.embeddings.create(input=query, model=...)
\* query_vector = embedding_response.data[0].embedding
Embed(p, resp) ==
    /\ pc[p] = "embed"
    /\ calls' = [calls EXCEPT ![p] = Append(@, EmbeddingRequest(query[p]))]
    /\ embedding_response' = [embedding_response EXCEPT ![p] = resp]
    /\ IF resp.kind = "raise"
         THEN Raise(p, resp.err) /\ UNCHANGED query_vector
       ELSE IF Len(resp.data) = 0
         THEN Raise(p, "IndexError") /\ UNCHANGED query_vector
       ELSE /\ query_vector' = [query_vector EXCEPT ![p] = resp.data[1]]
            /\ pc' = [pc EXCEPT ![p] = "search"]
            /\ UNCHANGED error
    /\ UNCHANGED <<query, results, i, final_output, ret, add_result>>
    /\ UNCHANGED drvVars

\* Search with a failed search call made a second time before giving up
SearchRetry(p, outcome) ==
    /\ pc[p] = "search"
    /\ IF outcome # "ok"
         THEN /\ calls' = [calls EXCEPT
                   ![p] = @ \o <<SearchRequest(query[p], query_vector[p]),
                                 SearchRequest(query[p], query_vector[p])>>]
              /\ results' = [results EXCEPT
                               ![p] = [kind |-> "raise", err |-> outcome]]
              /\ Raise(p, outcome)
              /\ UNCHANGED <<i, final_output>>
         ELSE /\ calls' = [calls EXCEPT
                   ![p] = Append(@, SearchRequest(query[p], query_vector[p]))]
              /\ results' = [results EXCEPT ![p] = Paged(<<>>, NoError)]
              /\ i' = [i EXCEPT ![Frame(p)] = InitCounter(p)]
              /\ final_output' = [final_output EXCEPT ![Frame(p)] = ""]
              /\ pc' = [pc EXCEPT ![p] = "loop"]
              /\ UNCHANGED error
    /\ UNCHANGED <<query, embedding_response, query_vector, ret, add_result>>
    /\ UNCHANGED drvVars

\* results = search_client.search(...); i = 0; final_output = ""
\* (outcome is "ok" or the error the call raises)
Search(p, outcome) ==
    /\ pc[p] = "search"
    /\ calls' = [calls EXCEPT
                   ![p] = Append(@, SearchRequest(query[p], query_vector[p]))]
    /\ IF outcome # "ok"
         THEN /\ results' = [results EXCEPT
                               ![p] = [kind |-> "raise", err |-> outcome]]
              /\ Raise(p, outcome)
              /\ UNCHANGED <<i, final_output>>
         ELSE /\ results' = [results EXCEPT ![p] = Paged(<<>>, NoError)]
              /\ i' = [i EXCEPT ![Frame(p)] = InitCounter(p)]
              /\ final_output' = [final_output EXCEPT ![Frame(p)] = ""]
              /\ pc' = [pc EXCEPT ![p] = "loop"]
              /\ UNCHANGED error
    /\ UNCHANGED <<query, embedding_response, query_vector, ret, add_result>>
    /\ UNCHANGED drvVars

\* one turn of "for result in results": the iterator yields result
Iterate(p, result) ==
    /\ pc[p] = "loop"
    /\ LET reranker_score == RerankerOf(result)
           n == i[Frame(p)] + 1
       IN  IF Kept(reranker_score)
             THEN /\ i' = [i EXCEPT ![Frame(p)] = n]
                  /\ final_output' =
                       [final_output EXCEPT
                          ![Frame(p)] = @ \o Block(n, ContentOf(result),
                                                  ScoreOf(result),
                                                  reranker_score)]
             ELSE UNCHANGED <<i, final_output>>
    /\ results' = [results EXCEPT ![p].items = Append(@, result)]
    /\ UNCHANGED <<pc, query, calls, embedding_response, query_vector,
                   ret, error, add_result>>
    /\ UNCHANGED drvVars

\* the iterator raises while fetching: the error leaves the loop and ai_search
IterationFails(p, e) ==
    /\ pc[p] = "loop"
    /\ results' = [results EXCEPT ![p].fail = e]
    /\ Raise(p, e)
    /\ UNCHANGED <<query, calls, embedding_response, query_vector,
                   i, final_output, ret, add_result>>
    /\ UNCHANGED drvVars

\* the iterator is exhausted: return final_output
Return(p) ==
    /\ pc[p] = "loop"
    /\ pc' = [pc EXCEPT ![p] = "returned"]
    /\ ret' = [ret EXCEPT ![p] = ReturnValue(final_output[Frame(p)])]
    /\ UNCHANGED <<query, calls, embedding_response, query_vector, results,
                   i, final_output, error, add_result>>
    /\ UNCHANGED drvVars

\* the transport calls add(a, b)
Add(a, b) ==
    /\ add_result' = [a |-> a, b |-> b, ret |-> add(a, b)]
    /\ UNCHANGED aiVars
    /\ UNCHANGED drvVars

\* the service has more results to yield
More(p, n) == pc[p] = "loop" /\ Len(results[p].items) < n

\* ------------------------------------------------ the client driver
PyList(items) == [type |-> "list", items |-> items]

\* tool_call.function.arguments is a string written by the model
ArgsSearch == "{\"query\": \"vpn\"}"
ArgsAdd == "{\"a\": 2, \"b\": 3}"
ArgsCut == "{\"a\": 2, "
ArgsEmpty == ""

\* json.loads: the parsed value, or JSONDecodeError for a string that is not
\* JSON
JsonLoads(str) ==
    CASE str = ArgsSearch -> [ok |-> TRUE, value |-> [query |-> "vpn"]]
      [] str = ArgsAdd -> [ok |-> TRUE, value |-> [a |-> 2, b |-> 3]]
      [] OTHER -> [ok |-> FALSE, error |-> "JSONDecodeError"]

\* json.dumps({"error": str(e)})
JsonDumpsError(e) == "{\"error\": \"" \o e \o "\"}"

ToolCallPool ==
    {[id |-> "call_1", name |-> "ai_search", arguments |-> ArgsSearch],
     [id |-> "call_2", name |-> "add", arguments |-> ArgsAdd],
     [id |-> "call_3", name |-> "add", arguments |-> ArgsCut],
     [id |-> "call_4", name |-> "ai_search", arguments |-> ArgsEmpty]}

\* the lists of tool calls a response can carry: each call has its own id
ToolCallLists ==
    {l \in SeqsUpTo(ToolCallPool, MaxToolCalls) :
        \A j \in 1..Len(l) : \A k \in 1..Len(l) : l[j] = l[k] => j = k}

\* what the first completion can do: raise, or answer with tool_calls None
\* or a list
FirstResponses ==
    {[kind |-> "raise", err |-> "completion:error"]}
    \cup {[kind |-> "ok", tool_calls |-> PyNone]}
    \cup {[kind |-> "ok", tool_calls |-> PyList(l)] : l \in ToolCallLists}

\* what mcp_session.call_tool can do: return a content, or raise
ToolOutcomes ==
    {[kind |-> "ok", content |-> "[TextContent]"],
     [kind |-> "raise", err |-> "tool:error"]}

\* if tool_calls:
Truthy(v) == v.type = "list" /\ Len(v.items) > 0

\* call_tool without its try/except: the content, when the call returned
call_toolUncaught(outcome) == outcome.content

\* call_tool: the content as a string, the error as a JSON string
call_tool(outcome) ==
    IF outcome.kind = "raise" THEN JsonDumpsError(outcome.err)
    ELSE outcome.content

\* the outer except and finally: the error is printed, the session closed
Caught(e) ==
    /\ d_pc' = "done"
    /\ d_error' = e

\* sse_client, ClientSession, initialize, list_tools
Connect(ok) ==
    /\ d_pc = "connect"
    /\ IF ok THEN d_pc' = "first" /\ UNCHANGED d_error
       ELSE Caught("connect:error")
    /\ UNCHANGED <<messages, tool_calls, tc_idx, completions, mcp_calls>>
    /\ UNCHANGED <<aiVars, add_result>>

\* Step 1: the first completion, and the test of its tool_calls
FirstCompletion(resp) ==
    /\ d_pc = "first"
    /\ completions' =
         Append(completions,
                [messages |-> <<[role |-> "user", content |-> "prompt"]>>,
                 tools |-> TRUE])
    /\ IF resp.kind = "raise"
         THEN /\ Caught(resp.err)
              /\ messages' = <<[role |-> "user", content |-> "prompt"]>>
              /\ UNCHANGED tool_calls
       ELSE /\ tool_calls' = resp.tool_calls
            /\ UNCHANGED d_error
            /\ IF Truthy(resp.tool_calls)
                 THEN /\ messages' =
                           <<[role |-> "user", content |-> "prompt"],
                             [role |-> "assistant",
                              tool_calls |-> resp.tool_calls]>>
                      /\ d_pc' = "tools"
                 ELSE /\ messages' =
                           <<[role |-> "user", content |-> "prompt"]>>
                      /\ d_pc' = "done"
    /\ UNCHANGED <<tc_idx, mcp_calls>>
    /\ UNCHANGED <<aiVars, add_result>>

\* ToolStep with call_tool letting the exception of the tool through
ToolStepPropagate(outcome) ==
    /\ d_pc = "tools"
    /\ tc_idx < Len(tool_calls.items)
    /\ LET tool_call == tool_calls.items[tc_idx + 1]
           function_args == JsonLoads(tool_call.arguments)
       IN  IF ~function_args.ok
             THEN /\ Caught(function_args.error)
                  /\ UNCHANGED <<messages, tc_idx, mcp_calls>>
           ELSE /\ mcp_calls' =
                     Append(mcp_calls,
                            [name |-> tool_call.name,
                             args |-> function_args.value,
                             outcome |-> outcome])
                /\ IF outcome.kind = "raise"
                     THEN Caught(outcome.err) /\ UNCHANGED <<messages, tc_idx>>
                     ELSE /\ messages' =
                               Append(messages,
                                      [tool_call_id |-> tool_call.id,
                                       role |-> "tool",
                                       name |-> tool_call.name,
                                       content |-> call_toolUncaught(outcome)])
                          /\ tc_idx' = tc_idx + 1
                          /\ UNCHANGED <<d_pc, d_error>>
    /\ UNCHANGED <<tool_calls, completions>>
    /\ UNCHANGED <<aiVars, add_result>>

\* Step 2, one turn of "for tool_call in tool_calls"
ToolStep(outcome) ==
    /\ d_pc = "tools"
    /\ tc_idx < Len(tool_calls.items)
    /\ LET tool_call == tool_calls.items[tc_idx + 1]
           function_args == JsonLoads(tool_call.arguments)
       IN  IF ~function_args.ok
             THEN /\ Caught(function_args.error)
                  /\ UNCHANGED <<messages, tc_idx, mcp_calls>>
           ELSE /\ mcp_calls' =
                     Append(mcp_calls,
                            [name |-> tool_call.name,
                             args |-> function_args.value,
                             outcome |-> outcome])
                /\ messages' =
                     Append(messages,
                            [tool_call_id |-> tool_call.id,
                             role |-> "tool",
                             name |-> tool_call.name,
                             content |-> call_tool(outcome)])
                /\ tc_idx' = tc_idx + 1
                /\ UNCHANGED <<d_pc, d_error>>
    /\ UNCHANGED <<tool_calls, completions>>
    /\ UNCHANGED <<aiVars, add_result>>

\* Step 3: the second completion, after the loop
SecondCompletion(ok) ==
    /\ d_pc = "tools"
    /\ tc_idx = Len(tool_calls.items)
    /\ completions' =
         Append(completions, [messages |-> messages, tools |-> FALSE])
    /\ IF ok THEN d_pc' = "done" /\ UNCHANGED d_error
       ELSE Caught("completion:error")
    /\ UNCHANGED <<messages, tool_calls, tc_idx, mcp_calls>>
    /\ UNCHANGED <<aiVars, add_result>>

\* one run of the driver script
NextDriver ==
    \/ \E ok \in BOOLEAN : Connect(ok)
    \/ \E r \in FirstResponses : FirstCompletion(r)
    \/ \E o \in ToolOutcomes : ToolStep(o)
    \/ \E ok \in BOOLEAN : SecondCompletion(ok)

SpecDriver == Init /\ [][NextDriver]_vars

\* one invocation at a time, in frame 1, over the full result pool
Next ==
    \/ \E q \in Queries : Invoke(1, q)
    \/ \E r \in EmbeddingResponses : Embed(1, r)
    \/ \E o \in {"ok"} \cup SearchFailures : Search(1, o)
    \/ \E r \in ResultPool : More(1, MaxResults) /\ Iterate(1, r)
    \/ \E e \in SearchFailures : IterationFails(1, e)
    \/ Return(1)

Spec == Init /\ [][Next]_vars

\* the steps of frame p in the runs with several frames
Step(p) ==
    \/ \E r \in ConcEmbeddingResponses : Embed(p, r)
    \/ \E o \in {"ok"} \cup ConcSearchFailures : Search(p, o)
    \/ \E r \in SmallPool : More(p, MaxConcResults) /\ Iterate(p, r)
    \/ \E e \in ConcSearchFailures : IterationFails(p, e)
    \/ Return(p)

\* invocations one after the other, in any frame, frames used again
InvokeSeq(p, q) == (\A o \in Procs : ~Running(o)) /\ Invoke(p, q)

NextSeq ==
    \E p \in Procs :
        \/ \E q \in ConcQueries : InvokeSeq(p, q)
        \/ Step(p)

SpecSeq == Init /\ [][NextSeq]_vars

\* simultaneous invocations, one per frame, interleaved step by step as the
\* transport may run them
InvokeOnce(p, q) == pc[p] = "idle" /\ Invoke(p, q)

NextConc ==
    \E p \in Procs :
        \/ \E q \in ConcQueries : InvokeOnce(p, q)
        \/ Step(p)

SpecConc == Init /\ [][NextConc]_vars

\* calls of add, between the steps of an invocation of ai_search
NextAdd ==
    \/ \E a \in -MaxInt..MaxInt, b \in -MaxInt..MaxInt : Add(a, b)
    \/ \E q \in ConcQueries : Invoke(1, q)
    \/ Step(1)

SpecAdd == Init /\ [][NextAdd]_vars

\* ================================================================ claims

\* the results of a response whose reranker score is present and >= 1.5
HasScoreAtLeast15(items) ==
    SelectSeq(items, LAMBDA r : RerankerKey \in DOMAIN r
                                /\ r[RerankerKey].tenths >= 15)

\* the blocks of the results kept[k..], labelled Source k, Source k+1, ...
RECURSIVE NumberedBlocks(_, _)
NumberedBlocks(kept, k) ==
    IF k > Len(kept) THEN ""
    ELSE Block(k, ContentOf(kept[k]), ScoreOf(kept[k]), kept[k][RerankerKey])
         \o NumberedBlocks(kept, k + 1)

Dashes == "--------------------------------------------------"

\* C1: the output has exactly one block per result whose reranker score is
\* >= 1.5 (1.5 itself is kept) and none for any other result; the blocks are
\* in the order of the response and labelled Source 1, Source 2, ..., Source k.
\* It holds of the buffer after every turn of the loop and of the value
\* returned.
C1_OneBlockPerKeptResult ==
    /\ pc[1] \in {"loop", "returned"} =>
         LET kept == HasScoreAtLeast15(results[1].items)
         IN  /\ i[1] = Len(kept)
             /\ final_output[1] = NumberedBlocks(kept, 1)
    /\ pc[1] = "returned" =>
         ret[1] = PyStr(NumberedBlocks(HasScoreAtLeast15(results[1].items), 1))

\* reranker scores [2.0, 1.5, 1.4, 0]: two blocks, Source 1 and Source 2
C1_Witness ==
    /\ pc[1] = "returned"
    /\ results[1].items = <<RFull, RBoundary, RBelow, RZero>>
    /\ ret[1] = PyStr(
         "Source 1\nContent: A\n@search.score: 0.8\n"
         \o "@search.reranker_score: 2.0\n" \o Dashes \o "\n\n"
         \o "Source 2\nContent: B\n@search.score: N/A\n"
         \o "@search.reranker_score: 1.5\n" \o Dashes \o "\n\n")

\* C10: add(a, b) returns a + b for all integers a and b, add(2, 3) = 5 and
\* add(-1, 1) = 0; a call of add changes nothing of the state of ai_search.
C10_AddReturnsSum ==
    /\ [](add_result # Unset =>
            /\ add_result.ret = add_result.a + add_result.b
            /\ (add_result.a = 2 /\ add_result.b = 3 => add_result.ret = 5)
            /\ (add_result.a = -1 /\ add_result.b = 1 => add_result.ret = 0))
    /\ [][add_result' # add_result => UNCHANGED aiVars]_vars

C10_Witness ==
    /\ add_result = [a |-> 2, b |-> 3, ret |-> 5]
    /\ pc[1] = "loop"
    /\ final_output[1] # ""

\* the errors the collaborators raise: the embedding or the search call fails
UpstreamServiceError == EmbeddingFailures \cup SearchFailures

\* both collaborator calls of the invocation in frame p succeeded
BothSucceeded(p) ==
    /\ embedding_response[p].kind = "ok"
    /\ results[p].kind = "ok"
    /\ results[p].fail = NoError

\* C2: when both collaborator calls succeed and the response has zero
\* results, or none with reranker score >= 1.5, ai_search returns the empty
\* string: it raises nothing and does not return None.
C2_EmptyStringWhenNothingKept ==
    (/\ Finished(1)
     /\ BothSucceeded(1)
     /\ HasScoreAtLeast15(results[1].items) = <<>>)
    => /\ pc[1] = "returned"
       /\ error[1] = NoError
       /\ ret[1] # PyNone
       /\ ret[1] = PyStr("")

C2_Witness ==
    /\ pc[1] = "returned"
    /\ results[1].items = <<RBelow, RZero, RNoReranker>>
    /\ ret[1] = PyStr("")

\* a result without the reranker field, given the score 0.0
ZeroFilled(items) ==
    [k \in 1..Len(items) |->
        IF RerankerKey \in DOMAIN items[k] THEN items[k]
        ELSE items[k] @@ (RerankerKey :> PyFloat(0))]

LastOf(seq) == seq[Len(seq)]

\* the loop of frame 1 has taken one more result
TookResult ==
    /\ pc[1] = "loop"
    /\ results[1].kind = "ok"
    /\ results'[1].kind = "ok"
    /\ Len(results'[1].items) = Len(results[1].items) + 1

\* C3: a result with no reranker_score field is treated as having score 0:
\* taking it raises nothing, appends no block and consumes no sequence
\* number, and the output is the one of the response with 0 in its place.
C3_MissingRerankerIsZero ==
    /\ [][(TookResult /\ RerankerKey \notin DOMAIN LastOf(results'[1].items))
            => /\ pc'[1] = "loop"
               /\ error'[1] = NoError
               /\ i'[1] = i[1]
               /\ final_output'[1] = final_output[1]]_vars
    /\ [](pc[1] = "returned" =>
            ret[1] = PyStr(NumberedBlocks(
                       HasScoreAtLeast15(ZeroFilled(results[1].items)), 1)))

C3_Witness ==
    /\ pc[1] = "returned"
    /\ results[1].items = <<RNoReranker, RFull>>
    /\ ret[1] = PyStr(
         "Source 1\nContent: A\n@search.score: 0.8\n"
         \o "@search.reranker_score: 2.0\n" \o Dashes \o "\n\n")

\* the block of result r under label n, field by field
BlockOf(n, r) ==
    "Source " \o ToString(n) \o "\n"
    \o "Content: "
    \o (IF search_content_field_name \in DOMAIN r
          THEN r[search_content_field_name].s ELSE "")
    \o "\n@search.score: "
    \o (IF ScoreKey \in DOMAIN r THEN FloatRepr(r[ScoreKey].tenths) ELSE "N/A")
    \o "\n@search.reranker_score: " \o FloatRepr(r[RerankerKey].tenths)
    \o "\n" \o Dashes \o "\n\n"

\* C4: whether a result gets a block depends only on its reranker score: with
\* a score >= 1.5 it gets one also without the content field (the content is
\* then the empty string) and without the raw score (the score is then N/A);
\* with a lower or no reranker score it gets none.
C4_BlockDependsOnRerankerOnly ==
    [][TookResult =>
         LET r == LastOf(results'[1].items)
         IN  IF RerankerKey \in DOMAIN r /\ r[RerankerKey].tenths >= 15
               THEN /\ i'[1] = i[1] + 1
                    /\ final_output'[1] = final_output[1] \o BlockOf(i'[1], r)
               ELSE /\ i'[1] = i[1]
                    /\ final_output'[1] = final_output[1]]_vars

C4_Witness ==
    /\ pc[1] = "returned"
    /\ results[1].items = <<RNoContent, RBoundary>>
    /\ ret[1] = PyStr(
         "Source 1\nContent: \n@search.score: 0.6\n"
         \o "@search.reranker_score: 3.1\n" \o Dashes \o "\n\n"
         \o "Source 2\nContent: B\n@search.score: N/A\n"
         \o "@search.reranker_score: 1.5\n" \o Dashes \o "\n\n")

\* the invocation in frame p has made a search request
SearchAttempted(p) == \E k \in 1..Len(calls[p]) : calls[p][k].api = "search"

\* C5: if the embedding call raises, the invocation makes no search call and
\* ends with the error of the embedding call, an UpstreamServiceError,
\* propagated to the caller; a search call is made only after an embedding
\* call that succeeded.
C5_NoSearchAfterEmbeddingError ==
    /\ embedding_response[1].kind = "raise" =>
         /\ pc[1] = "failed"
         /\ error[1] = embedding_response[1].err
         /\ error[1] \in UpstreamServiceError
         /\ ret[1] = Unset
         /\ ~SearchAttempted(1)
         /\ results[1] = NoResponse
    /\ SearchAttempted(1) => embedding_response[1].kind = "ok"

C5_Witness ==
    /\ pc[1] = "failed"
    /\ embedding_response[1] = [kind |-> "raise", err |-> "embedding:auth"]
    /\ error[1] = "embedding:auth"
    /\ calls[1] = <<EmbeddingRequest("q1")>>

\* C6: if the embedding call succeeds with zero embeddings, ai_search fails
\* with an UpstreamServiceError, the kind of error of a failed embedding
\* call, and makes no search call.
C6_ZeroEmbeddingsIsUpstreamError ==
    (embedding_response[1].kind = "ok" /\ Len(embedding_response[1].data) = 0)
    => /\ pc[1] = "failed"
       /\ error[1] \in UpstreamServiceError
       /\ ~SearchAttempted(1)

\* the error of the collaborator call that failed in frame p, if one did
CollaboratorError(p) ==
    IF embedding_response[p].kind = "raise" THEN embedding_response[p].err
    ELSE IF results[p].kind = "raise" THEN results[p].err
    ELSE IF results[p].kind = "ok" THEN results[p].fail
    ELSE NoError

\* C7: no partial result: every invocation either returns the output
\* formatted over the complete result sequence after both collaborator calls
\* succeeded, or fails outright with the collaborator's error propagated;
\* when a call fails, also while the results are iterated, nothing is
\* returned.
C7_AllOrCollaboratorError ==
    /\ Running(1) => ret[1] = Unset
    /\ Finished(1) =>
         \/ /\ pc[1] = "returned"
            /\ BothSucceeded(1)
            /\ error[1] = NoError
            /\ ret[1] = PyStr(NumberedBlocks(
                          HasScoreAtLeast15(results[1].items), 1))
         \/ /\ pc[1] = "failed"
            /\ ret[1] = Unset
            /\ error[1] \in UpstreamServiceError
            /\ error[1] = CollaboratorError(1)

\* what remains of C7 when the IndexError of an empty embedding list counts
\* as failing outright: a value is returned only by a complete run
NoPartialResult ==
    /\ Running(1) => ret[1] = Unset
    /\ Finished(1) =>
         \/ /\ pc[1] = "returned"
            /\ BothSucceeded(1)
            /\ error[1] = NoError
            /\ ret[1] = PyStr(NumberedBlocks(
                          HasScoreAtLeast15(results[1].items), 1))
         \/ /\ pc[1] = "failed"
            /\ ret[1] = Unset
            /\ IF CollaboratorError(1) # NoError
                 THEN error[1] = CollaboratorError(1)
                 ELSE error[1] = "IndexError"

\* the invocations in frames p and o got the same query and the same answers
SameInputs(p, o) ==
    /\ query[p] = query[o]
    /\ embedding_response[p] = embedding_response[o]
    /\ results[p] = results[o]

\* C8: two invocations, one after the other, with the same query and the
\* same answers of the collaborators end the same way, with the same bytes
\* returned: the counter and the buffer start fresh in each.
C8_SameInputsSameOutput ==
    \A p \in Procs : \A o \in Procs :
        (Finished(p) /\ Finished(o) /\ SameInputs(p, o))
        => /\ pc[p] = pc[o]
           /\ ret[p] = ret[o]
           /\ error[p] = error[o]

C8_Witness ==
    /\ pc[1] = "returned"
    /\ pc[2] = "returned"
    /\ SameInputs(1, 2)
    /\ results[1].items = <<RFull, RNoReranker>>
    /\ ret[2] = ret[1]
    /\ ret[1] = PyStr(
         "Source 1\nContent: A\n@search.score: 0.8\n"
         \o "@search.reranker_score: 2.0\n" \o Dashes \o "\n\n")

\* C9: simultaneous invocations are independent: in every interleaving of
\* their steps each has in its buffer, and returns or raises, exactly what
\* ai_search run alone does with the answers it got, and has made exactly
\* the requests of that run.
C9_ConcurrentInvocationsIndependent ==
    \A p \in Procs :
        /\ pc[p] = "loop" =>
             /\ final_output[p] = ForLoop(results[p].items, 1, 0, "")
             /\ i[p] = Len(HasScoreAtLeast15(results[p].items))
        /\ Finished(p) =>
             LET alone == ai_search(query[p], embedding_response[p],
                                    results[p])
             IN  /\ ret[p] = alone.ret
                 /\ error[p] = alone.error
                 /\ calls[p] = alone.calls
                 /\ (pc[p] = "returned") = (alone.error = NoError)

\* two invocations inside their loops at once, with different buffers
C9_Witness ==
    /\ pc[1] = "loop"
    /\ pc[2] = "loop"
    /\ results[1].items = <<RFull, RNoReranker>>
    /\ results[2].items = <<RFull, RFull>>
    /\ i[1] = 1
    /\ i[2] = 2
    /\ final_output[2] = final_output[1]
         \o "Source 2\nContent: A\n@search.score: 0.8\n"
         \o "@search.reranker_score: 2.0\n" \o Dashes \o "\n\n"

\* the requests of kind api among the requests log
CallsOf(log, api) == SelectSeq(log, LAMBDA c : c.api = api)

\* C11: in every invocation the embedding call is made at most once and the
\* search call at most once, the embedding call before the search call, and
\* nothing is retried: once a collaborator has failed, the invocation makes
\* no further outbound call.
C11_EachCallOnceNoRetry ==
    /\ [](/\ Len(CallsOf(calls[1], "embeddings.create")) <= 1
          /\ Len(CallsOf(calls[1], "search")) <= 1
          /\ Len(calls[1]) = Len(CallsOf(calls[1], "embeddings.create"))
                             + Len(CallsOf(calls[1], "search"))
          /\ SearchAttempted(1) => calls[1][1].api = "embeddings.create"
          /\ (embedding_response[1].kind = "raise" \/ pc[1] = "failed")
               => Len(calls[1]) = IF results[1] = NoResponse THEN 1 ELSE 2)
    /\ [][(error[1] # NoError /\ error'[1] # NoError)
            => calls'[1] = calls[1]]_vars
    /\ [][(CollaboratorError(1) # NoError /\ calls'[1] # calls[1])
            => (pc'[1] = "embed" /\ calls'[1] = <<>>)]_vars

\* the search iterator failed after yielding a result: both calls were made
\* once, in order, and none again
C11_Witness ==
    /\ pc[1] = "failed"
    /\ results[1] = Paged(<<RFull>>, "search:network")
    /\ calls[1] = <<EmbeddingRequest("q1"), SearchRequest("q1", "v2")>>

\* C12: the ai_search of server.py and the one of server_sse.py are
\* equivalent: on the same query, configuration and collaborator answers the
\* invocation of server.py makes the requests of server_sse.py in the same
\* order, has its buffer after every turn of the loop, and returns the same
\* string or fails with the same error at the same step.
C12_ServersEquivalent ==
    /\ \A k \in 1..Len(calls[1]) :
          calls[1][k] = IF k = 1 THEN EmbeddingRequestSse(query[1])
                        ELSE SearchRequestSse(query[1], query_vector[1])
    /\ pc[1] = "loop" =>
          final_output[1] = ForLoopSse(results[1].items, 1, 0, "")
    /\ Finished(1) =>
          LET sse == ai_search_sse(query[1], embedding_response[1],
                                   results[1])
          IN  /\ ret[1] = sse.ret
              /\ error[1] = sse.error
              /\ calls[1] = sse.calls
              /\ (pc[1] = "returned") = (sse.error = NoError)

C12_Witness ==
    /\ pc[1] = "returned"
    /\ results[1].items = <<RNoContent, RBelow, RBoundary>>
    /\ calls[1] = <<EmbeddingRequestSse("q2"), SearchRequestSse("q2", "v1")>>
    /\ ret[1] = PyStr(ForLoopSse(results[1].items, 1, 0, ""))
    /\ ret[1] = PyStr(
         "Source 1\nContent: \n@search.score: 0.6\n"
         \o "@search.reranker_score: 3.1\n" \o Dashes \o "\n\n"
         \o "Source 2\nContent: B\n@search.score: N/A\n"
         \o "@search.reranker_score: 1.5\n" \o Dashes \o "\n\n")

\* the tool calls listed by the first response (none before it, or for None)
Listed == IF tool_calls.type = "list" THEN tool_calls.items ELSE <<>>

ToolMessages == SelectSeq(messages, LAMBDA m : m.role = "tool")

\* tool call j was invoked as the j-th invocation and has the j-th tool
\* message, which carries its id and what call_tool made of the outcome
Answered(j) ==
    /\ j <= Len(mcp_calls)
    /\ j <= Len(ToolMessages)
    /\ mcp_calls[j].name = Listed[j].name
    /\ ToolMessages[j].tool_call_id = Listed[j].id
    /\ ToolMessages[j].name = Listed[j].name
    /\ ToolMessages[j].content =
         IF mcp_calls[j].outcome.kind = "raise"
           THEN "{\"error\": \"" \o mcp_calls[j].outcome.err \o "\"}"
           ELSE mcp_calls[j].outcome.content

\* the string is one of the JSON texts of the model
IsJson(str) == str \in {"{\"query\": \"vpn\"}", "{\"a\": 2, \"b\": 3}"}

\* C13 as stated: when the first response lists tool calls, every listed
\* call is invoked in order and gets exactly one tool message with its id,
\* also when the invocation raises; the second completion is requested only
\* after all of them, and never when no tool call is listed.
C13_EveryListedCallAnswered ==
    /\ Len(completions) = 2 =>
         /\ Len(Listed) > 0
         /\ Len(ToolMessages) = Len(Listed)
         /\ completions[2].messages = messages
    /\ (d_pc = "done" /\ Len(Listed) > 0) =>
         /\ Len(mcp_calls) = Len(Listed)
         /\ Len(ToolMessages) = Len(Listed)
         /\ \A j \in 1..Len(Listed) : Answered(j)
         /\ Len(completions) = 2
    /\ Len(Listed) = 0 => Len(completions) <= 1

\* C13, amended: the listed tool calls are taken in order and each one whose
\* arguments parse as JSON is invoked once and gets exactly one tool message
\* with its id, also when the invocation raises; a call whose arguments do
\* not parse ends the run with JSONDecodeError, without a message for it or
\* for a later call and without the second completion.  The second
\* completion is requested only after the messages of all listed calls, and
\* never when no tool call is listed.
C13_ListedCallsAnsweredUntilBadJson ==
    /\ Len(mcp_calls) = Len(ToolMessages)
    /\ Len(ToolMessages) = tc_idx
    /\ tc_idx <= Len(Listed)
    /\ \A j \in 1..tc_idx : IsJson(Listed[j].arguments) /\ Answered(j)
    /\ Len(completions) = 2 =>
         /\ Len(Listed) > 0
         /\ Len(ToolMessages) = Len(Listed)
         /\ completions[2].messages = messages
    /\ (d_pc = "done" /\ Len(Listed) > 0) =>
         IF \A j \in 1..Len(Listed) : IsJson(Listed[j].arguments)
           THEN /\ tc_idx = Len(Listed)
                /\ Len(completions) = 2
           ELSE /\ tc_idx < Len(Listed)
                /\ ~IsJson(Listed[tc_idx + 1].arguments)
                /\ d_error = "JSONDecodeError"
                /\ Len(completions) = 1
    /\ Len(Listed) = 0 => Len(completions) <= 1

\* two listed calls, the first invocation raised: two tool messages, then
\* the second completion over all four messages
C13_Witness ==
    /\ d_pc = "done"
    /\ Len(Listed) = 2
    /\ Listed[1].id = "call_1"
    /\ Listed[2].id = "call_2"
    /\ mcp_calls[1].outcome.kind = "raise"
    /\ ToolMessages[1].content = "{\"error\": \"tool:error\"}"
    /\ ToolMessages[2].tool_call_id = "call_2"
    /\ Len(completions) = 2
    /\ Len(completions[2].messages) = 4

====
